---- MODULE Spec2Model ----
(***************************************************************************)
(* A model of dpe/src/crypto.rs: the EcdsaPub / EcdsaSignature value       *)
(* types, the Hasher and Crypto traits with the default one-shot hash, and *)
(* the DeterministicCrypto test backend.                                   *)
(*                                                                         *)
(* Bytes are integers 0..255 and byte buffers are sequences (index 1 is    *)
(* Rust's index 0).  A Rust panic is the outcome "panic".                  *)
(***************************************************************************)
EXTENDS Integers, Sequences, FiniteSets

VARIABLES
  DPE_PROFILE,  \* the build-time profile that sizes EcdsaPub / EcdsaSignature
  ret,          \* the record of the last call: its inputs and its outcome
  hasher,       \* the caller's running hash state (one binding)
  log           \* the derivation calls made so far, with their outcomes

vars == <<DPE_PROFILE, ret, hasher, log>>

----------------------------------------------------------------------------
\* Bounds of the model.

\* destination lengths tried around the serialized size: 2n - MaxSlack .. 2n + MaxSlack
MaxSlack == 2
\* total number of bytes fed to one running hash, and the longest one-shot input
MaxMsgLen == 2
\* number of update calls one running hash receives
MaxUpdates == 2
\* number of distinct derivation calls remembered in the log
MaxLog == 2
\* longest buffer handed to rand_bytes (above 255, so that the u8 cast wraps)
MaxRandLen == 258

----------------------------------------------------------------------------
\* Profile parameters.

Profiles == {"P256Sha256", "P384Sha384"}

get_ecc_int_size(profile) == IF profile = "P256Sha256" THEN 32 ELSE 48
get_hash_size(profile) == IF profile = "P256Sha256" THEN 32 ELSE 48
get_cdi_size(profile) == IF profile = "P256Sha256" THEN 32 ELSE 48

get_digest(profile) == IF profile = "P256Sha256" THEN "sha256" ELSE "sha384"
get_curve(profile) == IF profile = "P256Sha256" THEN "X9_62_PRIME256V1" ELSE "SECP384R1"

----------------------------------------------------------------------------
\* Byte buffers.

Fill(n, b) == [i \in 1..n |-> b]
Ramp(n, b) == [i \in 1..n |-> (b + i) % 256]

\* dst[offset..offset + len].copy_from_slice(src): panics when the range leaves
\* dst or when the two lengths differ, and otherwise overwrites exactly that range
copy_from_slice(dst, offset, len, src) ==
  IF offset + len > Len(dst) \/ len # Len(src)
  THEN [panic |-> TRUE, buf |-> dst]
  ELSE [panic |-> FALSE,
        buf |-> [i \in 1..Len(dst) |->
                   IF i > offset /\ i <= offset + len THEN src[i - offset] ELSE dst[i]]]

NoCall == [op |-> "none"]

----------------------------------------------------------------------------
\* EcdsaPub and EcdsaPub::serialize.

\* EcdsaPub::default(): both coordinates are arrays of the build profile's size
EcdsaPub_default ==
  [x |-> Fill(get_ecc_int_size(DPE_PROFILE), 0), y |-> Fill(get_ecc_int_size(DPE_PROFILE), 0)]

\* size_of::<EcdsaPub>(): two u8 arrays, no padding
size_of_EcdsaPub == 2 * get_ecc_int_size(DPE_PROFILE)

\* the two copies and the returned offset, after the length check
serialize_copy(self, dst) ==
  LET c1 == copy_from_slice(dst, 0, Len(self.x), self.x)
      o1 == Len(self.x)
      c2 == copy_from_slice(c1.buf, o1, Len(self.y), self.y)
      o2 == o1 + Len(self.y)
  IN  IF c1.panic THEN [res |-> "panic", n |-> 0, dst |-> dst]
      ELSE IF c2.panic THEN [res |-> "panic", n |-> 0, dst |-> c1.buf]
      ELSE [res |-> "Ok", n |-> o2, dst |-> c2.buf]

\* faulty variant: the length check compares with one coordinate instead of the whole struct
serialize_checks_one_field(self, dst) ==
  IF Len(dst) < Len(self.x)
  THEN [res |-> "InternalError", n |-> 0, dst |-> dst]
  ELSE serialize_copy(self, dst)

\* faulty variant: the offset is not advanced between the two copies
serialize_offset_not_advanced(self, dst) ==
  IF Len(dst) < size_of_EcdsaPub
  THEN [res |-> "InternalError", n |-> 0, dst |-> dst]
  ELSE LET c1 == copy_from_slice(dst, 0, Len(self.x), self.x)
           c2 == copy_from_slice(c1.buf, 0, Len(self.y), self.y)
       IN  [res |-> "Ok", n |-> Len(self.y), dst |-> c2.buf]

serialize(self, dst) ==
  IF Len(dst) < size_of_EcdsaPub
  THEN [res |-> "InternalError", n |-> 0, dst |-> dst]
  ELSE serialize_copy(self, dst)

\* the public keys and destination buffers the caller tries
PubKeys ==
  {[x |-> Ramp(get_ecc_int_size(DPE_PROFILE), bx), y |-> Ramp(get_ecc_int_size(DPE_PROFILE), by)] :
     bx \in {0, 200}, by \in {100, 250}}
DstFills == {0, 17, 238}
SerializeDstLens ==
  {0, 1, get_ecc_int_size(DPE_PROFILE)}
    \cup {l \in (size_of_EcdsaPub - MaxSlack)..(size_of_EcdsaPub + MaxSlack) : l >= 0}

SerializeStep ==
  /\ \E self \in PubKeys, len \in SerializeDstLens, b \in DstFills :
       LET dst == Fill(len, b)
           r == serialize(self, dst)
       IN  ret' = [op |-> "serialize", self |-> self, dst0 |-> dst,
                   res |-> r.res, n |-> r.n, dst |-> r.dst]
  /\ UNCHANGED <<DPE_PROFILE, hasher, log>>

----------------------------------------------------------------------------
\* The running hash: OpensslHasher (the provider's state object), TestHasher and
\* the Hasher trait.

digest_size(md) == IF md = "sha256" THEN 32 ELSE 48

\* the provider's compression of one byte into the running value
Absorb(h, b) == (h * 31 + b + 1) % 32749

\* the compression of bytes[lo..hi], as the map h |-> (h * m + a) % 32749 that
\* absorbing these bytes one after the other amounts to
RECURSIVE AbsorbSeg(_, _, _)
AbsorbSeg(bytes, lo, hi) ==
  IF lo > hi THEN [m |-> 1, a |-> 0]
  ELSE IF lo = hi THEN [m |-> 31, a |-> bytes[lo] + 1]
  ELSE LET mid == (lo + hi) \div 2
           l == AbsorbSeg(bytes, lo, mid)
           r == AbsorbSeg(bytes, mid + 1, hi)
       IN  [m |-> (l.m * r.m) % 32749, a |-> (l.a * r.m + r.a) % 32749]

\* the compression of a chunk into the running value
AbsorbAll(h, bytes) ==
  LET t == AbsorbSeg(bytes, 1, Len(bytes)) IN (h * t.m + t.a) % 32749

\* the digest the provider produces from a running value
DigestBytes(h, size) ==
  [i \in 1..size |-> ((IF i % 2 = 0 THEN h \div 256 ELSE h) + i) % 256]

\* OpensslHasher::new(md)
OpensslHasher_new(md, fail) ==
  IF fail THEN [err |-> TRUE, hasher |-> [md |-> md, h |-> 0]]
  ELSE [err |-> FALSE, hasher |-> [md |-> md, h |-> digest_size(md)]]

\* OpensslHasher::update(bytes): a failed update leaves the running value alone
OpensslHasher_update(self, bytes, fail) ==
  IF fail THEN [err |-> TRUE, hasher |-> self]
  ELSE [err |-> FALSE, hasher |-> [self EXCEPT !.h = AbsorbAll(self.h, bytes)]]

\* OpensslHasher::finish(digest): fails on an undersized destination
OpensslHasher_finish(self, digest, fail) ==
  IF fail \/ Len(digest) < digest_size(self.md)
  THEN [err |-> TRUE, digest |-> digest]
  ELSE [err |-> FALSE,
        digest |-> copy_from_slice(digest, 0, digest_size(self.md),
                                   DigestBytes(self.h, digest_size(self.md))).buf]

\* impl Hasher for TestHasher: update
update(self, bytes, fail) ==
  LET r == OpensslHasher_update(self, bytes, fail)
  IN  [res |-> IF r.err THEN "InternalError" ELSE "Ok", hasher |-> r.hasher]

\* impl Hasher for TestHasher: finish
finish(self, digest, fail) ==
  LET r == OpensslHasher_finish(self, digest, fail)
  IN  [res |-> IF r.err THEN "InternalError" ELSE "Ok", digest |-> r.digest]

\* faulty variant: finish borrows the state (&mut self) instead of taking it
finish_borrows_self == "live"

\* what is left of the caller's binding after finish(self, ..): self was moved
Hasher_finish_binding == "moved"

\* DeterministicCrypto::hash_initialize
hash_initialize(profile, fail) ==
  LET md == get_digest(profile)
      r == OpensslHasher_new(md, fail)
  IN  [res |-> IF r.err THEN "InternalError" ELSE "Ok", hasher |-> r.hasher]

\* faulty variant: the result of update is dropped instead of propagated with `?`
hash_ignores_update_error(profile, bytes, digest, fi, fu, ff) ==
  LET i == hash_initialize(profile, fi)
      u == update(i.hasher, bytes, fu)
      f == finish(u.hasher, digest, ff)
      c1 == <<[op |-> "hash_initialize", bytes |-> <<>>, res |-> i.res]>>
      c2 == Append(c1, [op |-> "update", bytes |-> bytes, res |-> u.res])
      c3 == Append(c2, [op |-> "finish", bytes |-> <<>>, res |-> f.res])
  IN  IF i.res # "Ok" THEN [res |-> i.res, digest |-> digest, calls |-> c1]
      ELSE [res |-> f.res, digest |-> f.digest, calls |-> c3]

\* faulty variant: the one-shot hash finishes without feeding the input
hash_skips_update(profile, bytes, digest, fi, fu, ff) ==
  LET i == hash_initialize(profile, fi)
      f == finish(i.hasher, digest, ff)
      c1 == <<[op |-> "hash_initialize", bytes |-> <<>>, res |-> i.res]>>
      c3 == Append(c1, [op |-> "finish", bytes |-> <<>>, res |-> f.res])
  IN  IF i.res # "Ok" THEN [res |-> i.res, digest |-> digest, calls |-> c1]
      ELSE [res |-> f.res, digest |-> f.digest, calls |-> c3]

\* Crypto::hash, the default one-shot hash.  fi, fu, ff say whether the provider
\* fails in hash_initialize, update, finish; calls lists the calls made, in order.
hash(profile, bytes, digest, fi, fu, ff) ==
  LET i == hash_initialize(profile, fi)
      u == update(i.hasher, bytes, fu)
      f == finish(u.hasher, digest, ff)
      c1 == <<[op |-> "hash_initialize", bytes |-> <<>>, res |-> i.res]>>
      c2 == Append(c1, [op |-> "update", bytes |-> bytes, res |-> u.res])
      c3 == Append(c2, [op |-> "finish", bytes |-> <<>>, res |-> f.res])
  IN  IF i.res # "Ok" THEN [res |-> i.res, digest |-> digest, calls |-> c1]
      ELSE IF u.res # "Ok" THEN [res |-> u.res, digest |-> digest, calls |-> c2]
      ELSE [res |-> f.res, digest |-> f.digest, calls |-> c3]

\* the inputs the caller hashes and the digest destinations it offers
HashBytes == {0, 255}
RECURSIVE SeqsUpTo(_, _)
SeqsUpTo(S, n) ==
  IF n = 0 THEN {<<>>}
  ELSE LET shorter == SeqsUpTo(S, n - 1)
       IN  shorter \cup {Append(s, b) : s \in {t \in shorter : Len(t) = n - 1}, b \in S}
Chunks == SeqsUpTo(HashBytes, MaxMsgLen)
DigestDsts(profile) ==
  {Fill(len, 238) : len \in (get_hash_size(profile) - 1)..(get_hash_size(profile) + 1)}

NoHasher == [st |-> "none"]

\* let mut hasher = C::hash_initialize(profile)?;
HashInitializeStep ==
  /\ \E profile \in Profiles, fail \in BOOLEAN :
       LET r == hash_initialize(profile, fail)
       IN  /\ ret' = [op |-> "hash_initialize", profile |-> profile, res |-> r.res]
           /\ hasher' = IF r.res = "Ok"
                         THEN [st |-> "live", profile |-> profile,
                               obj |-> r.hasher, msg |-> <<>>,
                               hist |-> <<[op |-> "hash_initialize", bytes |-> <<>>, res |-> "Ok"]>>]
                         ELSE hasher
  /\ UNCHANGED <<DPE_PROFILE, log>>

\* hasher.update(bytes): the binding must still own its state
UpdateStep ==
  /\ hasher.st = "live"
  /\ Len(hasher.hist) <= MaxUpdates
  /\ \E bytes \in Chunks, fail \in BOOLEAN :
       /\ Len(hasher.msg) + Len(bytes) <= MaxMsgLen
       /\ LET r == update(hasher.obj, bytes, fail)
          IN  /\ ret' = [op |-> "update", bytes |-> bytes, res |-> r.res]
              /\ hasher' = [hasher EXCEPT
                              !.obj = r.hasher,
                              !.msg = IF r.res = "Ok" THEN hasher.msg \o bytes ELSE hasher.msg,
                              !.hist = Append(hasher.hist,
                                              [op |-> "update", bytes |-> bytes, res |-> r.res])]
  /\ UNCHANGED <<DPE_PROFILE, log>>

\* hasher.finish(&mut digest): the binding must still own its state, and gives it up
FinishStep ==
  /\ hasher.st = "live"
  /\ Len(hasher.hist) <= MaxUpdates + 1
  /\ \E digest \in DigestDsts(hasher.profile), fail \in BOOLEAN :
       LET r == finish(hasher.obj, digest, fail)
       IN  /\ ret' = [op |-> "finish", profile |-> hasher.profile,
                      hist |-> hasher.hist, msg |-> hasher.msg, dst0 |-> digest,
                      res |-> r.res, digest |-> r.digest]
           /\ hasher' = [hasher EXCEPT
                           !.st = Hasher_finish_binding,
                           !.hist = Append(hasher.hist,
                                           [op |-> "finish", bytes |-> <<>>, res |-> r.res])]
  /\ UNCHANGED <<DPE_PROFILE, log>>

\* C::hash(profile, bytes, &mut digest)
HashStep ==
  /\ \E profile \in Profiles, bytes \in Chunks,
        fi \in BOOLEAN, fu \in BOOLEAN, ff \in BOOLEAN :
     \E digest \in DigestDsts(profile) :
       LET r == hash(profile, bytes, digest, fi, fu, ff)
       IN  ret' = [op |-> "hash", profile |-> profile, bytes |-> bytes, dst0 |-> digest,
                   fi |-> fi, fu |-> fu, ff |-> ff,
                   res |-> r.res, digest |-> r.digest, calls |-> r.calls]
  /\ UNCHANGED <<DPE_PROFILE, hasher, log>>

----------------------------------------------------------------------------
\* DeterministicCrypto: rand_bytes.

\* `as u8` of a usize: truncation to the low eight bits
as_u8(v) == v % 256

\* faulty variant: the cast saturates at 255 instead of wrapping
rand_bytes_saturating(mem, off, n) ==
  [res |-> "Ok",
   mem |-> [j \in 1..Len(mem) |->
              IF j > off /\ j <= off + n
              THEN (IF (j - off - 1) + 1 > 255 THEN 255 ELSE (j - off - 1) + 1)
              ELSE mem[j]]]

\* rand_bytes(dst), dst being the n bytes of mem that start at offset off: the
\* loop visits the elements of dst, element i (from 0) receiving (i + 1) as u8
rand_bytes(mem, off, n) ==
  [res |-> "Ok",
   mem |-> [j \in 1..Len(mem) |->
              IF j > off /\ j <= off + n THEN as_u8((j - off - 1) + 1) ELSE mem[j]]]

RandFills == {238}

\* the destination lies between one byte before it and one byte after it
RandBytesStep ==
  /\ \E n \in 0..MaxRandLen, b \in RandFills :
       LET mem == Fill(1 + n + 1, b)
           r == rand_bytes(mem, 1, n)
       IN  ret' = [op |-> "rand_bytes", off |-> 1, n |-> n, mem0 |-> mem,
                   res |-> r.res, mem |-> r.mem]
  /\ UNCHANGED <<DPE_PROFILE, hasher, log>>

----------------------------------------------------------------------------
\* DeterministicCrypto: derive_cdi, derive_ecdsa_pub, ecdsa_sign_with_alias, and
\* the provider (OpensslCrypto) they call.

curve_size(nid) == IF nid = "X9_62_PRIME256V1" THEN 32 ELSE 48

\* OpensslCrypto::derive_cdi: a key derivation over the base secret, the
\* measurement and the info, of the base secret's length
OpensslCrypto_derive_cdi(base_cdi, measurement_digest, info, md, fail) ==
  IF fail THEN [err |-> TRUE, cdi |-> <<>>]
  ELSE [err |-> FALSE,
        cdi |-> DigestBytes(AbsorbAll(digest_size(md), base_cdi \o measurement_digest \o info),
                            Len(base_cdi))]

\* OpensslCrypto::derive_ecdsa_pub: the public point of the key pair derived
\* from cdi, label and info on the curve nid, each coordinate of the curve's size
OpensslCrypto_derive_ecdsa_pub(cdi, label, info, md, nid, fail) ==
  IF fail THEN [err |-> TRUE, x |-> <<>>, y |-> <<>>]
  ELSE LET h == AbsorbAll(digest_size(md) + curve_size(nid), cdi \o label \o info)
       IN  [err |-> FALSE, x |-> DigestBytes(h, curve_size(nid)),
            y |-> DigestBytes(Absorb(h, 0), curve_size(nid))]

\* BigNumRef::to_vec(): the big-endian bytes of the number, without leading zeros
RECURSIVE to_vec(_)
to_vec(bn) == IF bn # <<>> /\ Head(bn) = 0 THEN to_vec(Tail(bn)) ELSE bn

\* faulty variant: the base secret is drawn afresh for every derivation
base_cdi_fresh(profile) == Fill(get_cdi_size(profile), 1 + Cardinality(log))

\* let base_cdi = vec![0u8; profile.get_cdi_size()];
base_cdi(profile) == Fill(get_cdi_size(profile), 0)

\* DeterministicCrypto::derive_cdi
derive_cdi(profile, measurement_digest, info, fail) ==
  LET md == get_digest(profile)
      r == OpensslCrypto_derive_cdi(base_cdi(profile), measurement_digest, info, md, fail)
  IN  IF r.err THEN [res |-> "InternalError", cdi |-> <<>>]
      ELSE [res |-> "Ok", cdi |-> r.cdi]

\* the copies of a derived point into a default EcdsaPub
pub_from_point(point) ==
  LET pub_out == EcdsaPub_default
      cx == copy_from_slice(pub_out.x, 0, Len(pub_out.x), point.x)
      cy == copy_from_slice(pub_out.y, 0, Len(pub_out.y), point.y)
  IN  IF cx.panic \/ cy.panic THEN [res |-> "panic", x |-> <<>>, y |-> <<>>]
      ELSE [res |-> "Ok", x |-> cx.buf, y |-> cy.buf]

\* faulty variant: the key pair is derived from a secret drawn afresh, not from cdi
derive_ecdsa_pub_fresh_secret(profile, cdi, label, info, fail) ==
  LET md == get_digest(profile)
      nid == get_curve(profile)
      point == OpensslCrypto_derive_ecdsa_pub(Fill(Len(cdi), 1 + Cardinality(log)),
                                              label, info, md, nid, fail)
  IN  IF point.err THEN [res |-> "InternalError", x |-> <<>>, y |-> <<>>]
      ELSE pub_from_point(point)

\* DeterministicCrypto::derive_ecdsa_pub
derive_ecdsa_pub(profile, cdi, label, info, fail) ==
  LET md == get_digest(profile)
      nid == get_curve(profile)
      point == OpensslCrypto_derive_ecdsa_pub(cdi, label, info, md, nid, fail)
  IN  IF point.err THEN [res |-> "InternalError", x |-> <<>>, y |-> <<>>]
      ELSE pub_from_point(point)

\* EcdsaSignature::default()
EcdsaSignature_default ==
  [r |-> Fill(get_ecc_int_size(DPE_PROFILE), 0), s |-> Fill(get_ecc_int_size(DPE_PROFILE), 0)]

\* what OpensslCrypto::ecdsa_sign_with_alias may return on the curve nid: an
\* error, or a signature (r, s) of two numbers below the curve order, written
\* here on curve_size(nid) bytes; the signing nonce is the provider's choice
ProviderSigInts(nid) ==
  {Ramp(curve_size(nid), 6), Ramp(curve_size(nid), 128), <<0>> \o Ramp(curve_size(nid) - 1, 8),
   <<0, 0>> \o Ramp(curve_size(nid) - 2, 64)}
OpensslCrypto_ecdsa_sign_with_alias(digest, priv_bytes, nid) ==
  {[err |-> TRUE, r |-> <<>>, s |-> <<>>]}
    \cup {[err |-> FALSE, r |-> r, s |-> s] : r \in ProviderSigInts(nid), s \in ProviderSigInts(nid)}

\* DeterministicCrypto::ecdsa_sign_with_alias, sig being the provider's outcome
ecdsa_sign_with_alias(profile, digest, sig) ==
  IF sig.err THEN [res |-> "InternalError", r |-> <<>>, s |-> <<>>]
  ELSE LET sig_out == EcdsaSignature_default
           cr == copy_from_slice(sig_out.r, 0, Len(sig_out.r), to_vec(sig.r))
           cs == copy_from_slice(sig_out.s, 0, Len(sig_out.s), to_vec(sig.s))
       IN  IF cr.panic \/ cs.panic THEN [res |-> "panic", r |-> <<>>, s |-> <<>>]
           ELSE [res |-> "Ok", r |-> cr.buf, s |-> cs.buf]

\* the inputs the caller derives from and signs
Layer0 == <<108, 97, 121, 101, 114, 48>>
Infos == {<<>>, Layer0}
Labels == {<<101, 99, 99>>}
Measurements(profile) == {Fill(get_hash_size(profile), 0), Fill(get_hash_size(profile), 1)}
Cdis == {derive_cdi(p, Fill(get_hash_size(p), 0), Layer0, FALSE).cdi : p \in Profiles}
SignDigests(profile) == {Fill(get_hash_size(profile), 170), Ramp(get_hash_size(profile), 0)}

\* the log with one more derivation, while it has room
Logged(entry) == IF Cardinality(log) < MaxLog THEN log \cup {entry} ELSE log

SameCdiInputs(a, b) ==
  /\ a.op = "derive_cdi" /\ b.op = "derive_cdi"
  /\ a.profile = b.profile /\ a.measurement_digest = b.measurement_digest /\ a.info = b.info

SamePubInputs(a, b) ==
  /\ a.op = "derive_ecdsa_pub" /\ b.op = "derive_ecdsa_pub"
  /\ a.profile = b.profile /\ a.cdi = b.cdi /\ a.label = b.label /\ a.info = b.info

\* let cdi = C::derive_cdi(profile, measurement_digest, info)?;
DeriveCdiStep ==
  /\ \E profile \in Profiles, info \in Infos, fail \in BOOLEAN :
     \E measurement_digest \in Measurements(profile) :
       LET r == derive_cdi(profile, measurement_digest, info, fail)
           call == [op |-> "derive_cdi", profile |-> profile,
                    measurement_digest |-> measurement_digest, info |-> info, cdi |-> r.cdi]
       IN  /\ ret' = [op |-> "derive_cdi", profile |-> profile, res |-> r.res,
                      repeat |-> \E e \in log : SameCdiInputs(e, call),
                      lens |-> <<Len(r.cdi)>>]
           /\ log' = IF r.res = "Ok" THEN Logged(call) ELSE log
  /\ UNCHANGED <<DPE_PROFILE, hasher>>

\* let pub_key = C::derive_ecdsa_pub(profile, &cdi, label, info)?;
DeriveEcdsaPubStep ==
  /\ \E profile \in Profiles, cdi \in Cdis, label \in Labels, fail \in BOOLEAN :
       LET info == Layer0
           r == derive_ecdsa_pub(profile, cdi, label, info, fail)
           call == [op |-> "derive_ecdsa_pub", profile |-> profile, cdi |-> cdi,
                    label |-> label, info |-> info, x |-> r.x, y |-> r.y]
       IN  /\ ret' = [op |-> "derive_ecdsa_pub", profile |-> profile, res |-> r.res,
                      repeat |-> \E e \in log : SamePubInputs(e, call),
                      lens |-> <<Len(r.x), Len(r.y)>>]
           /\ log' = IF r.res = "Ok" THEN Logged(call) ELSE log
  /\ UNCHANGED <<DPE_PROFILE, hasher>>

\* let sig = C::ecdsa_sign_with_alias(profile, digest)?;
EcdsaSignWithAliasStep ==
  /\ \E profile \in Profiles :
     \E digest \in SignDigests(profile) :
     \E sig \in OpensslCrypto_ecdsa_sign_with_alias(
                   digest, Fill(get_ecc_int_size(profile), 0), get_curve(profile)) :
       LET r == ecdsa_sign_with_alias(profile, digest, sig)
       IN  ret' = [op |-> "ecdsa_sign_with_alias", profile |-> profile, digest |-> digest,
                   sig |-> sig, res |-> r.res, r |-> r.r, s |-> r.s]
  /\ UNCHANGED <<DPE_PROFILE, hasher, log>>

Init ==
  /\ DPE_PROFILE \in Profiles
  /\ ret = NoCall
  /\ hasher = NoHasher
  /\ log = {}

NextSerialize == SerializeStep
SpecSerialize == Init /\ [][NextSerialize]_vars

NextStream == HashInitializeStep \/ UpdateStep \/ FinishStep
SpecStream == Init /\ [][NextStream]_vars

NextHash == HashStep
SpecHash == Init /\ [][NextHash]_vars

NextRand == RandBytesStep
SpecRand == Init /\ [][NextRand]_vars

Next == DeriveCdiStep \/ DeriveEcdsaPubStep
Spec == Init /\ [][Next]_vars

NextSign == EcdsaSignWithAliasStep
SpecSign == Init /\ [][NextSign]_vars

\* C1: whenever serialize is called with a destination shorter than x||y
\* (2 * the elliptic-curve integer size), it returns the internal error and the
\* destination is byte for byte what it was before the call.
C1_UndersizedRejected ==
  (ret.op = "serialize" /\ Len(ret.dst0) < 2 * get_ecc_int_size(DPE_PROFILE))
    => (ret.res = "InternalError" /\ ret.dst = ret.dst0)

\* a call with a destination exactly one byte short has been rejected
C1_Witness ==
  /\ ret.op = "serialize"
  /\ Len(ret.dst0) = 2 * get_ecc_int_size(DPE_PROFILE) - 1
  /\ ret.res = "InternalError"

\* C2: whenever serialize is called with a destination of at least 2n bytes it
\* succeeds, returns 2n, and the destination starts with x followed by y.
C2_SerializeConcat ==
  LET n == get_ecc_int_size(DPE_PROFILE) IN
  (ret.op = "serialize" /\ Len(ret.dst0) >= 2 * n)
    => /\ ret.res = "Ok"
       /\ ret.n = 2 * n
       /\ Len(ret.dst) = Len(ret.dst0)
       /\ \A i \in 1..n : ret.dst[i] = ret.self.x[i] /\ ret.dst[n + i] = ret.self.y[i]

\* a call with a destination longer than 2n has succeeded
C2_Witness ==
  /\ ret.op = "serialize"
  /\ Len(ret.dst0) > 2 * get_ecc_int_size(DPE_PROFILE)
  /\ ret.res = "Ok"
  /\ ret.self.x # ret.self.y

----------------------------------------------------------------------------
\* the updates of a history all succeeded
AllUpdatesOk(hist) ==
  \A i \in 2..Len(hist) : hist[i].op = "update" /\ hist[i].res = "Ok"

\* C3: when a running hash that received only successful updates (in particular
\* two chunks A and B) is finished successfully, the digest written is the one
\* the one-shot hash writes for the concatenated input on the same profile.
C3_StreamingEquivalence ==
  (ret.op = "finish" /\ ret.res = "Ok" /\ AllUpdatesOk(ret.hist))
    => LET o == hash(ret.profile, ret.msg, ret.dst0, FALSE, FALSE, FALSE)
       IN  o.res = "Ok" /\ o.digest = ret.digest

\* a hash fed two non-empty chunks has been finished successfully
C3_Witness ==
  /\ ret.op = "finish" /\ ret.res = "Ok"
  /\ Len(ret.hist) = 3 /\ AllUpdatesOk(ret.hist)
  /\ ret.hist[2].bytes # <<>> /\ ret.hist[3].bytes # <<>>
  /\ ret.hist[2].bytes # ret.hist[3].bytes
  /\ ret.msg = ret.hist[2].bytes \o ret.hist[3].bytes

\* C4: the calls made on one hash state are hash_initialize, then updates only,
\* then at most one finish, which is the last call; a finished state is no
\* longer owned by the caller.
C4_SingleUse ==
  hasher.st # "none"
    => /\ hasher.hist[1].op = "hash_initialize"
       /\ \A i \in 2..Len(hasher.hist) :
            /\ hasher.hist[i].op \in {"update", "finish"}
            /\ hasher.hist[i].op = "finish" => i = Len(hasher.hist)
       /\ hasher.st = "moved" <=> hasher.hist[Len(hasher.hist)].op = "finish"

\* a state that received an update has been finished
C4_Witness ==
  /\ hasher.st = "moved"
  /\ Len(hasher.hist) >= 3
  /\ hasher.hist[Len(hasher.hist)].op = "finish"

\* the calls the one-shot hash may make, in order
C9_Expected(bytes, fi, fu) ==
  <<"hash_initialize">> \o (IF fi THEN <<>> ELSE <<"update">>)
                         \o (IF fi \/ fu THEN <<>> ELSE <<"finish">>)

\* C9: the one-shot hash calls hash_initialize, update with the whole input and
\* finish, in that order and once each, stopping at the first failure; it returns
\* the result of the last call it made, and leaves the digest destination alone
\* when hash_initialize or update failed.
C9_OneShotComposition ==
  ret.op = "hash"
    => LET want == C9_Expected(ret.bytes, ret.fi, ret.fu)
           last == ret.calls[Len(ret.calls)]
       IN  /\ Len(ret.calls) = Len(want)
           /\ \A i \in 1..Len(want) : ret.calls[i].op = want[i]
           /\ \A i \in 1..Len(ret.calls) :
                ret.calls[i].op = "update" => ret.calls[i].bytes = ret.bytes
           /\ \A i \in 1..(Len(ret.calls) - 1) : ret.calls[i].res = "Ok"
           /\ ret.res = last.res
           /\ (ret.fi \/ ret.fu) => (ret.res = "InternalError" /\ ret.digest = ret.dst0)
           /\ ~(ret.fi \/ ret.fu \/ ret.ff \/ Len(ret.dst0) < get_hash_size(ret.profile))
                => (ret.res = "Ok" /\ ret.digest # ret.dst0)

\* a one-shot hash whose update failed has returned
C9_Witness ==
  /\ ret.op = "hash" /\ ~ret.fi /\ ret.fu
  /\ ret.res = "InternalError"
  /\ Len(ret.calls) = 2

----------------------------------------------------------------------------
C7_SignOutcomes ==
  ret.op = "ecdsa_sign_with_alias"
    => \/ /\ ret.res = "Ok"
          /\ Len(ret.r) = get_ecc_int_size(ret.profile)
          /\ Len(ret.s) = get_ecc_int_size(ret.profile)
       \/ ret.res = "InternalError"

\* C8: for every profile, derive_ecdsa_pub ends either with a public key whose x
\* and y both have that profile's elliptic-curve integer size, or with the
\* internal error, and in no other way.
C8_PubOutcomes ==
  ret.op = "derive_ecdsa_pub"
    => \/ /\ ret.res = "Ok"
          /\ ret.lens = <<get_ecc_int_size(ret.profile), get_ecc_int_size(ret.profile)>>
       \/ ret.res = "InternalError"

\* C10: rand_bytes succeeds on a destination of any length n, element i (from 0)
\* of the destination then holds (i + 1) mod 256, and the bytes before and after
\* the destination are what they were.
C10_RandBytesFill ==
  ret.op = "rand_bytes"
    => /\ ret.res = "Ok"
       /\ Len(ret.mem) = Len(ret.mem0)
       /\ \A i \in 0..(ret.n - 1) : ret.mem[ret.off + 1 + i] = (i + 1) % 256
       /\ \A j \in 1..Len(ret.mem) :
            (j <= ret.off \/ j > ret.off + ret.n) => ret.mem[j] = ret.mem0[j]

\* a destination longer than 256 bytes has been filled, so that the values wrapped
C10_Witness ==
  /\ ret.op = "rand_bytes" /\ ret.res = "Ok"
  /\ ret.n > 256
  /\ ret.mem[ret.off + 256] = 0
  /\ ret.mem[ret.off + 257] = 1

====
